---- MODULE Spec2Model ----
(***************************************************************************)
(* Model of the BACnet unconfirmed-service decoder of bacnet_parse:        *)
(*   src/src/nsdu.rs                          primitive value decoders     *)
(*   src/src/nsdu/apdu/unconfirmed_request_pdu.rs   service decoders and   *)
(*                                            the APDU dispatcher          *)
(* The decoders are pure functions of a byte slice; they are operators     *)
(* here, and one action per entry point applies them to the input buffer.  *)
(*                                                                         *)
(* A u32 is the pair <<hi, lo>> of its 16-bit halves (value hi*2^16 + lo), *)
(* so that every u32 is representable and the bit operations keep their    *)
(* 32-bit width.  A byte slice is a sequence of naturals below 256.        *)
(***************************************************************************)
EXTENDS Integers, Sequences

VARIABLES
    bytes,      \* the input byte buffer (apdu.bytes / the `bytes` argument)
    op,         \* "idle" before the call, then the name of the function called
    arg,        \* the scalar argument of the call (sz or value), a u32
    result      \* what the call returned

vars == <<bytes, op, arg, result>>

----------------------------------------------------------------------------
(* Results.  Rust's Result<T, Error> plus the two ways a call can leave    *)
(* the type system: a panic (unwrap on Err) and undefined behaviour        *)
(* (unreachable_unchecked reached).                                        *)

Ok(v) == [kind |-> "Ok", val |-> v]

Err(e) == [kind |-> "Err", val |-> e]

Panic == [kind |-> "Panic", val |-> "unwrap"]

Undefined == [kind |-> "Undefined", val |-> "unreachable_unchecked"]

None == <<>>

Some(x) == <<x>>

IsOk(r) == r.kind = "Ok"

IsErr(r, e) == r.kind = "Err" /\ r.val = e

----------------------------------------------------------------------------
(* u32 arithmetic on <<hi, lo>> pairs.                                     *)

Drop(s, n) == SubSeq(s, n + 1, Len(s))

BACNET_MAX_INSTANCE == <<63, 65535>>

BACNET_INSTANCE_BITS == 22

BACNET_MAX_OBJECT == 1023

\* value >> BACNET_INSTANCE_BITS & BACNET_MAX_OBJECT  (>> binds tighter than &)
ShrAndMaxObject(v) ==
    << 0, (v[1] \div (2 ^ (BACNET_INSTANCE_BITS - 16))) % (BACNET_MAX_OBJECT + 1) >>

\* value & BACNET_MAX_INSTANCE
AndMaxInstance(v) ==
    << v[1] % (BACNET_MAX_INSTANCE[1] + 1), v[2] % (BACNET_MAX_INSTANCE[2] + 1) >>

----------------------------------------------------------------------------
(* src/src/nsdu.rs                                                         *)

\* Faulty variant of parse_unsigned: the 3-byte arm loses the most significant byte.
parse_unsigned_DropsHighByte(b, sz) ==
    IF (sz[1] # 0 \/ sz[2] > 4) \/ sz = <<0, 0>>
    THEN Err("InvalidValue")
    ELSE IF Len(b) < sz[2]
    THEN Err("Length")
    ELSE CASE sz[2] = 1 -> Ok([rest |-> Drop(b, 1), value |-> <<0, b[1]>>])
           [] sz[2] = 2 -> Ok([rest |-> Drop(b, 2), value |-> <<0, b[1] * 256 + b[2]>>])
           [] sz[2] = 3 -> Ok([rest |-> Drop(b, 3),
                               value |-> <<0, b[2] * 256 + b[3]>>])
           [] sz[2] = 4 -> Ok([rest |-> Drop(b, 4),
                               value |-> <<b[1] * 256 + b[2], b[3] * 256 + b[4]>>])
           [] OTHER -> Undefined

\* Faulty variant of SizeOutOfRange: a size above 4 is let through.
SizeOutOfRange_ZeroOnly(sz) == sz = <<0, 0>>

\* sz > 4 || sz == 0
SizeOutOfRange(sz) == (sz[1] # 0 \/ sz[2] > 4) \/ sz = <<0, 0>>

parse_unsigned(b, sz) ==
    IF SizeOutOfRange(sz)
    THEN Err("InvalidValue")
    ELSE IF sz[1] # 0 \/ Len(b) < sz[2]
    THEN Err("Length")
    ELSE CASE sz[2] = 1 -> Ok([rest |-> Drop(b, 1), value |-> <<0, b[1]>>])
           [] sz[2] = 2 -> Ok([rest |-> Drop(b, 2), value |-> <<0, b[1] * 256 + b[2]>>])
           [] sz[2] = 3 -> Ok([rest |-> Drop(b, 3), value |-> <<b[1], b[2] * 256 + b[3]>>])
           [] sz[2] = 4 -> Ok([rest |-> Drop(b, 4),
                               value |-> <<b[1] * 256 + b[2], b[3] * 256 + b[4]>>])
           [] OTHER -> Undefined

\* TryFrom<u32> for Segmentation (unconfirmed_request_pdu.rs), used by both files.
Segmentation_try_from(value) ==
    CASE value = <<0, 0>> -> Ok("Both")
      [] value = <<0, 1>> -> Ok("Transmit")
      [] value = <<0, 2>> -> Ok("Receive")
      [] value = <<0, 3>> -> Ok("None")
      [] value = <<0, 4>> -> Ok("Max")
      [] OTHER -> Err("InvalidValue")

\* parse_enumerated::<Segmentation>: the inner result is unwrapped, the
\* conversion result is propagated with `?`.
parse_enumerated(b, sz) ==
    LET r == parse_unsigned(b, sz)
    IN  IF r.kind = "Err" THEN Panic
        ELSE IF r.kind # "Ok" THEN r
        ELSE LET c == Segmentation_try_from(r.val.value)
             IN  IF c.kind = "Ok"
                 THEN Ok([rest |-> r.val.rest, value |-> c.val])
                 ELSE c

\* ObjectType::from(u32) (module nsdu::object_type): total; a code outside the
\* named enumeration maps to the reserved/proprietary variant.  The design
\* leaves the extent of the named range open; it is taken to end where
\* BACnet's vendor-proprietary codes begin (128).
ObjectDevice == 8

MaxStandardObjectType == 127

ObjectType_from(code) ==
    IF code[1] = 0 /\ code[2] <= MaxStandardObjectType
    THEN [variant |-> "Standard", code |-> code[2]]
    ELSE [variant |-> "ReservedOrProprietary", code |-> 0]

\* Faulty variant of parse_object_id: the type field is taken from bit 16 upwards.
parse_object_id_Shift16(b, sz) ==
    LET r == parse_unsigned(b, sz)
    IN  IF r.kind # "Ok" THEN r
        ELSE LET value == r.val.value
                 object_type == ObjectType_from(<<0, value[1] % (BACNET_MAX_OBJECT + 1)>>)
                 id == AndMaxInstance(value)
             IN  Ok([rest |-> r.val.rest,
                     value |-> [object_type |-> object_type, id |-> id]])

parse_object_id(b, sz) ==
    LET r == parse_unsigned(b, sz)
    IN  IF r.kind # "Ok" THEN r
        ELSE LET value == r.val.value
                 object_type == ObjectType_from(ShrAndMaxObject(value))
                 id == AndMaxInstance(value)
             IN  Ok([rest |-> r.val.rest,
                     value |-> [object_type |-> object_type, id |-> id]])

----------------------------------------------------------------------------
(* Tag decoder (module nsdu::apdu::tag): Tag::parse and Tag::tag_type.     *)

\* The `?` operator: continue with the value of an Ok, return anything else.
Try(r, F(_)) == IF r.kind = "Ok" THEN F(r.val) ELSE r

ExtendedTagNumber == 15

ExtendedLengthLvt == 5

OpeningLvt == 6

ClosingLvt == 7

\* Length/value/type field of a tag whose first byte is b0, read from `rest`
\* (the bytes after the tag number).
Tag_parse_value(b0, rest) ==
    LET lvt == b0 % 8
    IN  IF lvt < ExtendedLengthLvt
        THEN Ok([rest |-> rest, value |-> <<0, lvt>>])
        ELSE IF lvt = OpeningLvt \/ lvt = ClosingLvt
        THEN Ok([rest |-> rest, value |-> <<0, 0>>])
        ELSE IF Len(rest) < 1 THEN Err("Length")
        ELSE IF rest[1] < 254
        THEN Ok([rest |-> Drop(rest, 1), value |-> <<0, rest[1]>>])
        ELSE IF rest[1] = 254
        THEN IF Len(rest) < 3 THEN Err("Length")
             ELSE Ok([rest |-> Drop(rest, 3), value |-> <<0, rest[2] * 256 + rest[3]>>])
        ELSE IF Len(rest) < 5 THEN Err("Length")
             ELSE Ok([rest |-> Drop(rest, 5),
                      value |-> <<rest[2] * 256 + rest[3], rest[4] * 256 + rest[5]>>])

Tag_parse(b) ==
    IF Len(b) < 1 THEN Err("Length")
    ELSE LET b0 == b[1]
             class == IF (b0 \div 8) % 2 = 1 THEN "ContextSpecific" ELSE "Application"
             marker == IF b0 % 8 = OpeningLvt THEN "open"
                       ELSE IF b0 % 8 = ClosingLvt THEN "close" ELSE "none"
             mk(number, rest) ==
                 Try(Tag_parse_value(b0, rest), LAMBDA v:
                     Ok([rest |-> v.rest,
                         tag |-> [number |-> number, class |-> class,
                                  value |-> v.value, marker |-> marker]]))
         IN  IF b0 \div 16 = ExtendedTagNumber
             THEN IF Len(b) < 2 THEN Err("Length") ELSE mk(b[2], Drop(b, 2))
             ELSE mk(b0 \div 16, Drop(b, 1))

ApplicationKinds ==
    << "Null", "Boolean", "UnsignedInt", "SignedInt", "Real", "Double",
       "OctetString", "CharacterString", "BitString", "Enumerated", "Date",
       "Time", "ObjectId" >>

\* Tag::tag_type: application tags carry a kind, context tags carry none.
tag_type(tag) ==
    IF tag.class = "Application" /\ tag.number < Len(ApplicationKinds)
    THEN ApplicationKinds[tag.number + 1]
    ELSE "Other"

----------------------------------------------------------------------------
(* src/src/nsdu/apdu/unconfirmed_request_pdu.rs                            *)

\* Faulty variant of WhoIsLimits_parse: bytes left over after high_limit are an error.
WhoIsLimits_parse_NoTrailing(b) ==
    IF Len(b) < 2 THEN Undefined
    ELSE IF Len(b) = 2 THEN Ok(None)
    ELSE Try(Tag_parse(Drop(b, 2)), LAMBDA t1:
         IF t1.tag.number # 0 THEN Err("InvalidValue") ELSE
         Try(parse_unsigned(t1.rest, t1.tag.value), LAMBDA low:
         Try(Tag_parse(low.rest), LAMBDA t2:
         Try(parse_unsigned(t2.rest, t2.tag.value), LAMBDA high:
             IF high.rest # <<>> THEN Err("Length") ELSE
             Ok(Some([low_limit |-> low.value, high_limit |-> high.value]))))))

WhoIsLimits_parse(b) ==
    IF Len(b) < 2 THEN Undefined
    ELSE IF Len(b) = 2 THEN Ok(None)
    ELSE Try(Tag_parse(Drop(b, 2)), LAMBDA t1:
         IF t1.tag.number # 0 THEN Err("InvalidValue") ELSE
         Try(parse_unsigned(t1.rest, t1.tag.value), LAMBDA low:
         Try(Tag_parse(low.rest), LAMBDA t2:
         Try(parse_unsigned(t2.rest, t2.tag.value), LAMBDA high:
             Ok(Some([low_limit |-> low.value, high_limit |-> high.value]))))))

\* Faulty variant of IsDeviceObject: any object type is accepted as device_id.
IsDeviceObject_Any(device_id) == TRUE

\* device_id.object_type != ObjectType::ObjectDevice, negated
IsDeviceObject(device_id) ==
    device_id.object_type = [variant |-> "Standard", code |-> ObjectDevice]

IAmData_parse(b) ==
    IF Len(b) < 2 THEN Undefined
    ELSE Try(Tag_parse(Drop(b, 2)), LAMBDA t1:
         IF tag_type(t1.tag) # "ObjectId" THEN Err("InvalidValue") ELSE
         Try(parse_object_id(t1.rest, t1.tag.value), LAMBDA dev:
         IF ~IsDeviceObject(dev.value) THEN Err("InvalidValue") ELSE
         Try(Tag_parse(dev.rest), LAMBDA t2:
         IF tag_type(t2.tag) # "UnsignedInt" THEN Err("InvalidValue") ELSE
         Try(parse_unsigned(t2.rest, t2.tag.value), LAMBDA apdu:
         Try(Tag_parse(apdu.rest), LAMBDA t3:
         IF tag_type(t3.tag) # "Enumerated" THEN Err("InvalidValue") ELSE
         Try(parse_unsigned(t3.rest, t3.tag.value), LAMBDA seg:
         Try(Segmentation_try_from(seg.value), LAMBDA segmentation:
         Try(Tag_parse(seg.rest), LAMBDA t4:
         IF tag_type(t4.tag) # "UnsignedInt" THEN Err("InvalidValue") ELSE
         Try(parse_unsigned(t4.rest, t4.tag.value), LAMBDA vendor:
         IF vendor.value[1] # 0 THEN Err("InvalidValue") ELSE
             Ok(Some([device_id |-> dev.value,
                      max_apdu |-> apdu.value,
                      segmentation |-> segmentation,
                      vendor_id |-> vendor.value[2]])))))))))))

\* Faulty variant of TooShort: only the empty buffer is rejected.
TooShort_OffByOne(b) == Len(b) < 1

\* bytes.len() < 2
TooShort(b) == Len(b) < 2

\* A variant is [choice, fields]: `fields` is the tuple of values the variant
\* carries (IHave, WhoHas and Unknown are unit variants).
Variant(choice, fields) == [choice |-> choice, fields |-> fields]

UnconfirmedServiceChoice_parse(b) ==
    IF TooShort(b) THEN Err("Length")
    ELSE IF Len(b) < 2 THEN Panic       \* bytes[1] is a checked index
    ELSE CASE b[2] = 0 -> Try(IAmData_parse(b), LAMBDA d: Ok(Variant("IAm", <<d>>)))
           [] b[2] = 1 -> Ok(Variant("IHave", <<>>))
           [] b[2] = 7 -> Ok(Variant("WhoHas", <<>>))
           [] b[2] = 8 -> Try(WhoIsLimits_parse(b), LAMBDA d: Ok(Variant("WhoIs", <<d>>)))
           [] OTHER -> Ok(Variant("Unknown", <<>>))

----------------------------------------------------------------------------
(* Inputs.  Every byte sequence is a possible APDU; the model draws the    *)
(* buffer from all short sequences over a small alphabet, plus Who-Is and  *)
(* I-Am messages assembled field by field (well-formed and not).           *)

MaxLen == 4         \* longest buffer drawn from the free alphabet

MaxSize == 5        \* largest small `sz` argument of the primitive decoders

MaxEnumValue == 5   \* largest small `value` given to Segmentation::try_from

\* 0x00 0x01 0x08 0x09 0x10 0x19 0xFE
Alphabet == {0, 1, 8, 9, 16, 25, 254}

FreeBuffers == UNION {[1..n -> Alphabet] : n \in 0..MaxLen}

TagByte(number, context, lvt) == number * 16 + context * 8 + lvt

\* Value bytes of width w: 00..05, 05..05 and FE 01 02 ..
ValueBytes(w) ==
    { [i \in 1..w |-> IF i = w THEN 5 ELSE 0],
      [i \in 1..w |-> 5],
      [i \in 1..w |-> IF i = 1 THEN 254 ELSE i - 1] }

\* One tagged unsigned field: short-form lengths 1..4, and the extended-length
\* form (LVT 5, then the length byte) for lengths 1, 4 and 5.
TaggedFields(numbers, contexts) ==
    UNION { { <<TagByte(t[1], t[2], t[3])>> \o v : v \in ValueBytes(t[3]) }
            : t \in numbers \X contexts \X (1..4) }
    \cup
    UNION { { <<TagByte(t[1], t[2], ExtendedLengthLvt), t[3]>> \o v : v \in ValueBytes(t[3]) }
            : t \in numbers \X contexts \X {1, 4, 5} }

Trailers == { <<>>, <<254>>, <<0, 9>> }

WhoIsBuffers ==
    { <<16, 8>> \o f1 \o f2 \o tr :
        f1 \in TaggedFields({0, 1}, {0, 1}),
        f2 \in TaggedFields({1}, {0, 1}) \cup {<<>>},
        tr \in Trailers }

\* I-Am fields.  0xC4 is the application tag ObjectId with length 4, 0x2n
\* UnsignedInt with length n, 0x9n Enumerated with length n.
DeviceIdFields ==
    { <<196, 2, 0, 0, 1>>,          \* Device, instance 1
      <<196, 2, 63, 255, 255>>,     \* Device, instance 0x3FFFFF
      <<196, 0, 64, 0, 1>>,         \* object type 1, instance 1
      <<196, 255, 255, 255, 255>>,  \* object type 1023
      <<195, 0, 0, 1>>,             \* 3-byte object id: object type 0
      <<204, 2, 0, 0, 1>>,          \* context tag 12
      <<36, 2, 0, 0, 1>> }          \* UnsignedInt tag

MaxApduFields == { <<34, 1, 224>>, <<33, 50>>, <<145, 0>>, <<>> }

SegmentationFields ==
    { <<145, v>> : v \in 0..MaxEnumValue } \cup { <<146, 0, 4>>, <<33, 0>>, <<145>> }

VendorIdFields ==
    { <<33, 15>>, <<34, 1, 4>>, <<35, 1, 0, 0>>, <<36, 0, 0, 1, 4>>, <<145, 15>>, <<>> }

IAmBuffers ==
    { <<16, 0>> \o f1 \o f2 \o f3 \o f4 \o tr :
        f1 \in DeviceIdFields, f2 \in MaxApduFields, f3 \in SegmentationFields,
        f4 \in VendorIdFields, tr \in {<<>>, <<254>>} }

\* The buffers the specification names, and one per service choice.
ExampleBuffers ==
    { <<16, 8, 9, 1, 5, 25, 1, 10>>,
      <<16, 8, 9, 5, 25, 10>>,
      <<16, 8, 1, 5, 25, 10>>,
      <<16, 254>>, <<16, 7>>, <<16, 7, 9, 5>>, <<16, 1, 9, 5>>, <<48, 8>>,
      <<0, 64, 0, 1>>, <<2, 0, 0, 1>> }

Buffers == FreeBuffers \cup WhoIsBuffers \cup IAmBuffers \cup ExampleBuffers

\* sz is a u32: the small sizes, and one that does not fit in 16 bits.
Sizes == { <<0, n>> : n \in 0..MaxSize } \cup { <<1, 1>> }

EnumValues == { <<0, n>> : n \in 0..MaxEnumValue } \cup { <<1, 0>>, <<65535, 65535>> }

\* What a call whose model result is r can return: reaching
\* unreachable_unchecked is undefined behaviour, so anything.
UndefinedOutcomes ==
    { Err("Length"), Err("InvalidValue"), Panic, Ok(Variant("Unknown", <<>>)) }

Outcomes(r) == IF r.kind = "Undefined" THEN UndefinedOutcomes ELSE {r}

----------------------------------------------------------------------------
Init ==
    /\ bytes \in Buffers
    /\ op = "idle"
    /\ arg = <<0, 0>>
    /\ result = None

DoUnconfirmedServiceChoiceParse ==
    /\ op = "idle"
    /\ op' = "UnconfirmedServiceChoice::parse"
    /\ arg' = <<0, 0>>
    /\ result' \in Outcomes(UnconfirmedServiceChoice_parse(bytes))
    /\ UNCHANGED bytes

DoParseUnsigned ==
    \E sz \in Sizes :
        /\ op = "idle"
        /\ op' = "parse_unsigned"
        /\ arg' = sz
        /\ result' \in Outcomes(parse_unsigned(bytes, sz))
        /\ UNCHANGED bytes

DoParseEnumerated ==
    \E sz \in Sizes :
        /\ op = "idle"
        /\ op' = "parse_enumerated"
        /\ arg' = sz
        /\ result' \in Outcomes(parse_enumerated(bytes, sz))
        /\ UNCHANGED bytes

DoParseObjectId ==
    \E sz \in Sizes :
        /\ op = "idle"
        /\ op' = "parse_object_id"
        /\ arg' = sz
        /\ result' \in Outcomes(parse_object_id(bytes, sz))
        /\ UNCHANGED bytes

DoSegmentationTryFrom ==
    \E value \in EnumValues :
        /\ op = "idle"
        /\ op' = "Segmentation::try_from"
        /\ arg' = value
        /\ result' \in Outcomes(Segmentation_try_from(value))
        /\ UNCHANGED bytes

Next ==
    \/ DoUnconfirmedServiceChoiceParse
    \/ DoParseUnsigned
    \/ DoParseEnumerated
    \/ DoParseObjectId
    \/ DoSegmentationTryFrom

Spec == Init /\ [][Next]_vars

----------------------------------------------------------------------------
(* Reference definitions used by the properties.                           *)

RECURSIVE RefBigEndian(_)
\* The big-endian unsigned value of a byte string, folded byte by byte.
RefBigEndian(s) ==
    IF s = <<>> THEN <<0, 0>>
    ELSE LET p == RefBigEndian(SubSeq(s, 1, Len(s) - 1))
         IN  << (p[1] * 256 + p[2] \div 256) % 65536, (p[2] % 256) * 256 + s[Len(s)] >>

Dispatched == op = "UnconfirmedServiceChoice::parse"

WhoIsResult(limits) == Ok(Variant("WhoIs", <<limits>>))

Limits(low, high) == Some([low_limit |-> low, high_limit |-> high])

\* C3: parse_unsigned agrees with the reference: InvalidValue when size is 0 or
\* above 4, else Length when fewer than size bytes remain, else the big-endian
\* value of the first size bytes and the input with those bytes removed.
C3_ParseUnsignedReference ==
    op = "parse_unsigned" =>
        IF arg[1] # 0 \/ arg[2] = 0 \/ arg[2] > 4
        THEN IsErr(result, "InvalidValue")
        ELSE IF Len(bytes) < arg[2]
        THEN IsErr(result, "Length")
        ELSE /\ IsOk(result)
             /\ result.val.value = RefBigEndian(SubSeq(bytes, 1, arg[2]))
             /\ SubSeq(bytes, 1, arg[2]) \o result.val.rest = bytes
             /\ Len(result.val.rest) = Len(bytes) - arg[2]

\* A 3-byte decode whose most significant byte is 0xFE, with bytes left over.
C3_Witness ==
    /\ op = "parse_unsigned"
    /\ arg = <<0, 3>>
    /\ IsOk(result)
    /\ result.val.value[1] = 254
    /\ result.val.rest # <<>>

\* C1: with at least 2 bytes the dispatcher follows the table on byte 1:
\* 0x00 is the I-Am decoder's result, 0x08 the Who-Is decoder's, 0x01 is IHave
\* and 0x07 WhoHas whatever follows, and any other byte b is Unknown carrying b.
C1_DispatchTable ==
    (Dispatched /\ Len(bytes) >= 2) =>
        CASE bytes[2] = 0 ->
                 LET d == IAmData_parse(bytes)
                 IN  IF IsOk(d) THEN result = Ok(Variant("IAm", <<d.val>>)) ELSE result = d
          [] bytes[2] = 8 ->
                 LET d == WhoIsLimits_parse(bytes)
                 IN  IF IsOk(d) THEN result = WhoIsResult(d.val) ELSE result = d
          [] bytes[2] = 1 -> result = Ok(Variant("IHave", <<>>))
          [] bytes[2] = 7 -> result = Ok(Variant("WhoHas", <<>>))
          [] OTHER -> result = Ok(Variant("Unknown", <<bytes[2]>>))

\* C2: the dispatcher fails with Length on every buffer of 0 or 1 bytes, without
\* reaching a payload decoder's unreachable arm, and on the bare I-Am header
\* [0x10, 0x00].
C2_ShortBufferLength ==
    Dispatched =>
        /\ Len(bytes) < 2 => IsErr(result, "Length")
        /\ bytes = <<16, 0>> => IsErr(result, "Length")
        /\ UnconfirmedServiceChoice_parse(bytes).kind # "Undefined"

\* The bare I-Am header was dispatched and failed with Length.
C2_Witness == Dispatched /\ bytes = <<16, 0>> /\ IsErr(result, "Length")

\* C4: when the unsigned decode succeeds with v, parse_object_id returns the
\* object type mapped from the 10 bits above bit 22 and the low 22 bits as the
\* instance (type * 2^22 + instance recomposes v modulo the 10-bit type field),
\* 0x00400001 gives type code 1 and instance 1, and when the unsigned decode
\* fails parse_object_id returns that failure.
C4_ObjectIdSplit ==
    op = "parse_object_id" =>
        LET u == parse_unsigned(bytes, arg)
        IN  IF IsOk(u)
            THEN /\ IsOk(result)
                 /\ result.val.rest = u.val.rest
                 /\ LET id == result.val.value.id
                        code == ((u.val.value[1] - id[1]) \div 64) % 1024
                    IN  /\ id[1] < 64
                        /\ id[2] = u.val.value[2]
                        /\ (u.val.value[1] - id[1]) % 64 = 0
                        /\ result.val.value.object_type = ObjectType_from(<<0, code>>)
                 /\ (u.val.value = <<64, 1>>) =>
                        /\ result.val.value.object_type = [variant |-> "Standard", code |-> 1]
                        /\ result.val.value.id = <<0, 1>>
            ELSE result = u

\* The packed value 0x00400001 was decoded as an object id.
C4_Witness ==
    /\ op = "parse_object_id"
    /\ bytes = <<0, 64, 0, 1>>
    /\ arg = <<0, 4>>
    /\ IsOk(result)
    /\ result.val.value.id = <<0, 1>>

\* A tagged unsigned field at the head of s, read directly from the bytes: one
\* tag byte with length 1..4, or a tag byte with LVT 5 and a length byte 1..4.
\* <<header length, value width>>, or <<0, 0>> when s does not start with one.
RefField(s) ==
    IF s = <<>> THEN <<0, 0>>
    ELSE LET lvt == s[1] % 8
         IN  IF s[1] \div 16 = 15 THEN <<0, 0>>
             ELSE IF lvt \in 1..4
             THEN (IF Len(s) >= 1 + lvt THEN <<1, lvt>> ELSE <<0, 0>>)
             ELSE IF lvt = 5 /\ Len(s) >= 2
             THEN (IF s[2] \in 1..4 /\ Len(s) >= 2 + s[2] THEN <<2, s[2]>> ELSE <<0, 0>>)
             ELSE <<0, 0>>

RefFieldValue(s) == RefBigEndian(SubSeq(s, RefField(s)[1] + 1, RefField(s)[1] + RefField(s)[2]))

RefFieldRest(s) == Drop(s, RefField(s)[1] + RefField(s)[2])

\* The payload starts with a context tag 0 field followed by a second field.
RefTwoLimits(payload) ==
    /\ RefField(payload) # <<0, 0>>
    /\ payload[1] \div 16 = 0
    /\ (payload[1] \div 8) % 2 = 1
    /\ RefField(RefFieldRest(payload)) # <<0, 0>>

\* C5: a Who-Is of exactly 2 bytes is WhoIs(None); a Who-Is whose payload is a
\* context tag 0 field of 1..4 bytes and a second tagged field of 1..4 bytes is
\* WhoIs(Some) with the big-endian values of the two fields, whatever follows.
C5_WhoIsLimits ==
    (Dispatched /\ Len(bytes) >= 2 /\ bytes[2] = 8) =>
        /\ Len(bytes) = 2 => result = WhoIsResult(None)
        /\ RefTwoLimits(Drop(bytes, 2)) =>
              result = WhoIsResult(Limits(RefFieldValue(Drop(bytes, 2)),
                                          RefFieldValue(RefFieldRest(Drop(bytes, 2)))))

\* Limits 5 and 0xFE0102 decoded from a Who-Is with two bytes after high_limit.
C5_Witness ==
    /\ Dispatched
    /\ bytes = <<16, 8, 9, 5, 27, 254, 1, 2, 0, 9>>
    /\ result = WhoIsResult(Limits(<<0, 5>>, <<254, 258>>))

SpecExample == <<16, 8, 9, 1, 5, 25, 1, 10>>

\* C6 as stated: the 8-byte example decodes to the limits 5 and 10.
C6_Original ==
    (Dispatched /\ bytes = SpecExample) => result = WhoIsResult(Limits(<<0, 5>>, <<0, 10>>))

\* C6 amended: the 8-byte example fails with InvalidValue (0x09 announces a
\* 1-byte low_limit, 0x01; 0x05 is then a tag with LVT 5 and extended length
\* 0x19 = 25, which is no valid unsigned width), and the 6-byte Who-Is
\* [0x10, 0x08, 0x09, 0x05, 0x19, 0x0A] decodes to the limits 5 and 10.
C6_Amended ==
    Dispatched =>
        /\ bytes = SpecExample => IsErr(result, "InvalidValue")
        /\ bytes = <<16, 8, 9, 5, 25, 10>> =>
              result = WhoIsResult(Limits(<<0, 5>>, <<0, 10>>))

\* The 8-byte example was dispatched and rejected.
C6_Witness == Dispatched /\ bytes = SpecExample /\ IsErr(result, "InvalidValue")

\* C7: a Who-Is of more than 2 bytes fails with InvalidValue unless its first
\* tag is context-specific with number 0.
C7_ContextTagZero ==
    (Dispatched /\ Len(bytes) > 2 /\ bytes[2] = 8) =>
        LET t == Tag_parse(Drop(bytes, 2))
        IN  (IsOk(t) /\ ~(t.val.tag.class = "ContextSpecific" /\ t.val.tag.number = 0))
                => IsErr(result, "InvalidValue")

\* C8: Segmentation decodes exactly the values 0..3 and fails with InvalidValue
\* from 4 on; Max is never a decode result, neither of the conversion nor in
\* the segmentation field of a decoded I-Am.
C8_SegmentationRange ==
    /\ op = "Segmentation::try_from" =>
          /\ IsOk(result) <=> (arg[1] = 0 /\ arg[2] <= 3)
          /\ ~IsOk(result) => IsErr(result, "InvalidValue")
          /\ result # Ok("Max")
    /\ (Dispatched /\ IsOk(result) /\ result.val.choice = "IAm") =>
          result.val.fields[1][1].segmentation # "Max"

\* C9: an I-Am whose first tag is of kind ObjectId and whose object id decodes
\* to an object type other than Device fails with InvalidValue, whatever follows.
C9_DeviceRequired ==
    (Dispatched /\ Len(bytes) >= 2 /\ bytes[2] = 0) =>
        LET t == Tag_parse(Drop(bytes, 2))
        IN  (IsOk(t) /\ tag_type(t.val.tag) = "ObjectId") =>
                LET o == parse_object_id(t.val.rest, t.val.tag.value)
                IN  (IsOk(o) /\ o.val.value.object_type
                                    # [variant |-> "Standard", code |-> ObjectDevice])
                        => IsErr(result, "InvalidValue")

\* An I-Am for object type 1 with well-formed max_apdu, segmentation and
\* vendor_id fields was rejected.
C9_Witness ==
    /\ Dispatched
    /\ bytes = <<16, 0, 196, 0, 64, 0, 1, 34, 1, 224, 145, 0, 33, 15>>
    /\ IsErr(result, "InvalidValue")

\* C10: parse_enumerated never aborts: a failure of the unsigned decode is
\* returned as that failure, and InvalidValue comes from the enumeration
\* mapping only when the unsigned decode succeeded.
C10_NoAbort ==
    op = "parse_enumerated" =>
        LET u == parse_unsigned(bytes, arg)
        IN  /\ result.kind # "Panic"
            /\ ~IsOk(u) => result = u
            /\ IsOk(u) => (IsOk(result) \/ IsErr(result, "InvalidValue"))

====
